---- MODULE Spec2Model ----
(***************************************************************************)
(* CountMyLines: the line counter (src/counter.py), its error type         *)
(* (src/errors.py) and the command line driver (src/cli.py).               *)
(*                                                                         *)
(* A string is a sequence of one-character strings, a path is a sequence   *)
(* of names (root first), a name is a string.                              *)
(***************************************************************************)
EXTENDS Integers, Sequences, FiniteSets, TLC

VARIABLES
    pc,                 \* where the session is: idle, loop, open, scan, appended, raising, returned, raised
    call,               \* the public method being executed: none, count_file, count_files
    files,              \* count_files' argument (count_file: the one file)
    idx,                \* position of the for loop of count_files in files (1-based)
    lines,              \* count_file's local: the lines of the file being scanned
    lineIdx,            \* how many of lines the scan loop has processed
    fileData,           \* count_file's local FileData
    inMultiLineComment, \* count_file's local flag
    fileDatas,          \* LineCounter._fileDatas
    err,                \* the exception the call raised, or NoError
    pre,                \* fileDatas as it was when the running call started
    log,                \* what the running call met at which position of files, in order
    output,             \* what print_file_data last printed, or NoOutput
    settings,           \* LineCounter._settings
    tree,               \* the file system: the kind of each path, the order of entries
    found,              \* what get_py_files(settings.path) handed back, or NotCalled
    content,            \* a text as read() hands it to count_file
    outcomes            \* what count_file makes of content as it is and terminated, or NotCounted

sessionVars == <<pc, call, files, idx, lines, lineIdx, fileData, inMultiLineComment,
                 fileDatas, err, pre, log, output>>
discoveryVars == <<settings, tree, found>>
readVars == <<content, outcomes>>
vars == <<sessionVars, discoveryVars, readVars>>

----------------------------------------------------------------------------
(* Bounds of the model *)

\* lines one session reads into records, an empty file taken as one line
MaxLines == 3

----------------------------------------------------------------------------
(* Strings *)

SQ == "'"
DQ == "\""
NL == "\n"
FF == "\f"

\* characters at which str.splitlines() ends a line (of them: line feed, form feed)
LineBoundaries == {NL, FF}

TripleSingle == <<SQ, SQ, SQ>>
TripleDouble == <<DQ, DQ, DQ>>
Hash == <<"#">>

Whitespace == {" ", "\t", NL, FF}

\* str.startswith / str.endswith
StartsWith(s, p) == Len(s) >= Len(p) /\ SubSeq(s, 1, Len(p)) = p
EndsWith(s, p) == Len(s) >= Len(p) /\ SubSeq(s, Len(s) - Len(p) + 1, Len(s)) = p

RECURSIVE LStrip(_)
LStrip(s) ==
    IF s # <<>> /\ Head(s) \in Whitespace THEN LStrip(Tail(s)) ELSE s

RECURSIVE RStrip(_)
RStrip(s) ==
    IF s # <<>> /\ s[Len(s)] \in Whitespace THEN RStrip(SubSeq(s, 1, Len(s) - 1)) ELSE s

\* str.strip()
Strip(s) == RStrip(LStrip(s))

\* position of the first line terminator of text, 0 when there is none
RECURSIVE FirstNL(_, _)
FirstNL(text, i) ==
    IF i > Len(text) THEN 0
    ELSE IF text[i] \in LineBoundaries THEN i
    ELSE FirstNL(text, i + 1)

\* SplitLines with a last line after every terminator, as str.split("\n") has it
RECURSIVE SplitLines_KeepsLast(_)
SplitLines_KeepsLast(text) ==
    LET i == FirstNL(text, 1) IN
    IF i = 0 THEN <<text>>
    ELSE <<SubSeq(text, 1, i - 1)>> \o SplitLines_KeepsLast(SubSeq(text, i + 1, Len(text)))

\* str.splitlines(): a final terminator opens no further line
RECURSIVE SplitLines(_)
SplitLines(text) ==
    IF text = <<>> THEN <<>>
    ELSE LET i == FirstNL(text, 1) IN
         IF i = 0 THEN <<text>>
         ELSE <<SubSeq(text, 1, i - 1)>> \o SplitLines(SubSeq(text, i + 1, Len(text)))

----------------------------------------------------------------------------
(* Inputs: file contents and paths *)

Docstring == <<"d", "o", "c", "s", "t", "r", "i", "n", "g">>

\* the lines the files of the model are written from
LineSamples ==
    { <<>>,                                          \* empty
      <<" ", " ">>,                                  \* whitespace only
      <<"#", "c">>,                                  \* # comment
      <<"i", "n", "s", "i", "d", "e">>,              \* inside
      TripleSingle,                                  \* '''
      TripleDouble,                                  \* """
      TripleSingle \o <<"d">>,                       \* '''d
      TripleSingle \o Docstring \o TripleSingle,     \* '''docstring'''
      <<" ">> \o TripleDouble \o <<"d">> \o TripleSingle  \*  """d'''
    }

RECURSIVE SeqsUpTo(_, _)
SeqsUpTo(S, n) ==
    IF n = 0 THEN {<<>>}
    ELSE LET shorter == SeqsUpTo(S, n - 1) IN
         shorter \cup {Append(s, x) : s \in {t \in shorter : Len(t) = n - 1}, x \in S}

\* the text of a file written line by line, each line but the last terminated
RECURSIVE Join(_)
Join(ls) ==
    IF ls = <<>> THEN <<>>
    ELSE IF Len(ls) = 1 THEN ls[1]
    ELSE ls[1] \o <<NL>> \o Join(Tail(ls))

\* the texts of at most n lines, with and without a final terminator
Contents(n) ==
    {Join(ls) : ls \in SeqsUpTo(LineSamples, n)}
    \cup {Join(ls) \o <<NL>> : ls \in SeqsUpTo(LineSamples, n) \ {<<>>}}

\* the lines of the texts on which count_file is taken as a function
ReadSamples ==
    LineSamples \cup { TripleDouble \o <<"d">>,        \* """d
                       <<"d">> \o TripleSingle }       \* d'''

\* the lines ls written with terminator t between them
RECURSIVE JoinBy(_, _)
JoinBy(ls, t) ==
    IF ls = <<>> THEN <<>>
    ELSE IF Len(ls) = 1 THEN ls[1]
    ELSE ls[1] \o <<t>> \o JoinBy(Tail(ls), t)

\* the texts of at most n lines: either terminator between the lines, and no
\* terminator or either one at the end
ReadTexts(n) ==
    {JoinBy(ls, t) : ls \in SeqsUpTo(ReadSamples, n), t \in LineBoundaries}
    \cup {JoinBy(ls, t) \o <<u>> :
             ls \in SeqsUpTo(ReadSamples, n) \ {<<>>}, t \in LineBoundaries,
             u \in LineBoundaries}

NotCounted == [plain |-> "not counted"]

NameA == <<"a", ".", "p", "y">>
NameB == <<"b", ".", "p", "y">>

PathA == <<NameA>>
PathB == <<NameB>>

\* the paths handed to count_file
CountPaths == {PathA, PathB}

\* the lists handed to count_files: none, one, two in both orders, a path twice
BatchInputs ==
    { <<>>, <<PathA>>, <<PathA, PathB>>, <<PathB, PathA>>, <<PathA, PathA>>,
      <<PathA, PathB, PathA>> }

----------------------------------------------------------------------------
(* Values *)

NoError == [type |-> "none"]
NoOutput == [kind |-> "none"]
NoFileData == [file |-> <<>>, totalLines |-> 0, commentLines |-> 0,
               codeLines |-> 0, blankLines |-> 0]

\* FileData(file, 0, 0, 0, 0)
FileData(file, totalLines, commentLines, codeLines, blankLines) ==
    [file |-> file, totalLines |-> totalLines, commentLines |-> commentLines,
     codeLines |-> codeLines, blankLines |-> blankLines]

\* CommentNotClosedError(file): the exception carries the file
CommentNotClosedError(file) == [type |-> "CommentNotClosedError", file |-> file]

\* the exceptions of the standard library, raised for a path
OSError(type, file) == [type |-> type, file |-> file]

RECURSIVE SumOver(_, _)
SumOver(recs, field) ==
    IF recs = <<>> THEN 0 ELSE Head(recs)[field] + SumOver(Tail(recs), field)

----------------------------------------------------------------------------
(* get_py_files: the file system it walks *)

PYTHON_FILE_EXTENSIONS == {<<".", "p", "y">>}

NameProj == <<"p", "r", "o", "j">>
NameTxt == <<"n", ".", "t", "x", "t">>
NameVenv == <<"v", "e", "n", "v">>
NameSub == <<"s", "u", "b">>

\* the directory the model's trees hang from
Proj == <<NameProj>>

\* the order in which a directory hands out its entries (or its reverse)
EntryOrder == <<NameA, NameTxt, NameVenv, NameSub, NameB>>

\* what may be chosen for each place of the tree: under proj the entries a.py, n.txt,
\* venv (with its a.py) and sub; under sub the entries b.py, venv (with its a.py)
\* and sub (with its a.py)
TreeChoices ==
    [a : {"absent", "file", "other"},
     t : {"absent", "file"},
     v : {"absent", "empty", "full", "file"},
     s : {"absent", "dir"},
     sb : {"absent", "file"},
     sv : {"absent", "full"},
     ss : {"absent", "empty", "full"},
     reversed : BOOLEAN]

Sub == Append(Proj, NameSub)

\* the kind of every path that exists in the tree chosen by c
KindsOf(c) ==
    LET At(cond, p, k) == IF cond THEN p :> k ELSE <<>>
        inSub == c.s = "dir"
    IN  (Proj :> "dir")
        @@ At(c.a # "absent", Append(Proj, NameA), c.a)
        @@ At(c.t = "file", Append(Proj, NameTxt), "file")
        @@ At(c.v \in {"empty", "full"}, Append(Proj, NameVenv), "dir")
        @@ At(c.v = "file", Append(Proj, NameVenv), "file")
        @@ At(c.v = "full", Append(Append(Proj, NameVenv), NameA), "file")
        @@ At(inSub, Sub, "dir")
        @@ At(inSub /\ c.sb = "file", Append(Sub, NameB), "file")
        @@ At(inSub /\ c.sv = "full", Append(Sub, NameVenv), "dir")
        @@ At(inSub /\ c.sv = "full", Append(Append(Sub, NameVenv), NameA), "file")
        @@ At(inSub /\ c.ss # "absent", Append(Sub, NameSub), "dir")
        @@ At(inSub /\ c.ss = "full", Append(Append(Sub, NameSub), NameA), "file")

Trees == {[kind |-> KindsOf(c), reversed |-> c.reversed] : c \in TreeChoices}

\* Settings(path, ignoreNames, ignorePaths, recursive, outputDetail)
SettingsChoices ==
    [path : {Proj, Append(Proj, NameA), Append(Proj, NameTxt), Sub},
     ignoreNames : {{}, {NameVenv}, {NameVenv, NameA}, {NameSub}},
     ignorePaths : {{}, {Sub}, {Append(Proj, NameA)}, {Append(Sub, NameSub)}},
     recursive : BOOLEAN,
     outputDetail : {"basic"}]

\* the settings and the tree of a state in which discovery plays no part
PlainSettings ==
    [path |-> Proj, ignoreNames |-> {NameVenv}, ignorePaths |-> {},
     recursive |-> TRUE, outputDetail |-> "basic"]
BareTree == [kind |-> (Proj :> "dir"), reversed |-> FALSE]

NotCalled == [ok |-> FALSE, error |-> "not called"]

\* Path.name
Name(p) == p[Len(p)]

\* Path.parent
Parent(p) == SubSeq(p, 1, Len(p) - 1)

\* position of the last "." of name, 0 when there is none
RECURSIVE LastDot(_, _)
LastDot(name, i) ==
    IF i = 0 THEN 0
    ELSE IF name[i] = "." THEN i
    ELSE LastDot(name, i - 1)

\* Path.suffix: from the last dot of the name on, when that dot is neither the
\* first nor the last character
Suffix(p) ==
    LET name == Name(p)
        i == LastDot(name, Len(name))
    IN  IF 1 < i /\ i < Len(name) THEN SubSeq(name, i, Len(name)) ELSE <<>>

\* Path.is_file, Path.is_dir
IsFile(p) == p \in DOMAIN tree.kind /\ tree.kind[p] = "file"
IsDir(p) == p \in DOMAIN tree.kind /\ tree.kind[p] = "dir"

RECURSIVE Reverse(_)
Reverse(s) == IF s = <<>> THEN <<>> ELSE Append(Reverse(Tail(s)), Head(s))

IsEntry(p, n) == Append(p, n) \in DOMAIN tree.kind

\* Path.iterdir: the entries of directory p, as paths, in the order of the tree
IterDir(p) ==
    LET names == SelectSeq(IF tree.reversed THEN Reverse(EntryOrder) ELSE EntryOrder,
                           LAMBDA n : IsEntry(p, n))
    IN  [i \in 1..Len(names) |-> Append(p, names[i])]

\* SkipDir looking at the ignore lists alone
SkipDir_RecursiveUnread(f) ==
    \/ Name(f) \in settings.ignoreNames
    \/ f \in settings.ignorePaths

\* SkipDir without the look at ignorePaths
SkipDir_PathsUnread(f) ==
    \/ Name(f) \in settings.ignoreNames
    \/ ~settings.recursive

\* the three `continue` of the directory branch of get_py_files
SkipDir(f) ==
    \/ Name(f) \in settings.ignoreNames
    \/ f \in settings.ignorePaths
    \/ ~settings.recursive

\* SkipFile without the look at ignoreNames
SkipFile_NamesUnread(f) ==
    \/ Suffix(f) \notin PYTHON_FILE_EXTENSIONS
    \/ f \in settings.ignorePaths

\* the three `continue` of the file branch of get_py_files
SkipFile(f) ==
    \/ Suffix(f) \notin PYTHON_FILE_EXTENSIONS
    \/ Name(f) \in settings.ignoreNames
    \/ f \in settings.ignorePaths

\* what a successful get_py_files hands back, with the directories it listed
Found(fs, dirs) == [ok |-> TRUE, files |-> fs, entered |-> dirs]

\* what a get_py_files that raises leaves: the type of the exception
Raised(type) == [ok |-> FALSE, error |-> type]

\* RootFile handing back an empty list for a file of another extension
RootFile_EmptyForOthers(path) ==
    IF Suffix(path) \in PYTHON_FILE_EXTENSIONS
    THEN Found(<<path>>, <<>>)
    ELSE Found(<<>>, <<>>)

\* get_py_files on a path that is a file: `return [path]` or `raise ValueError`
RootFile(path) ==
    IF Suffix(path) \in PYTHON_FILE_EXTENSIONS
    THEN Found(<<path>>, <<>>)
    ELSE Raised("ValueError")

\* Merge putting the files of the subdirectory before those found so far
Merge_Prepend(acc, below) ==
    Found(below.files \o acc.files, acc.entered \o below.entered)

\* files += self.get_py_files(file)
Merge(acc, below) ==
    Found(acc.files \o below.files, acc.entered \o below.entered)

\* get_py_files(path); Walk is its `for file in path.iterdir()` from entry i on
RECURSIVE GetPyFiles(_), Walk(_, _, _)
GetPyFiles(path) ==
    IF IsFile(path)
    THEN RootFile(path)
    ELSE IF ~IsDir(path)
    THEN Raised(IF path \in DOMAIN tree.kind THEN "NotADirectoryError"
                ELSE "FileNotFoundError")
    ELSE Walk(IterDir(path), 1, Found(<<>>, <<path>>))

Walk(entries, i, acc) ==
    IF i > Len(entries) THEN acc
    ELSE LET f == entries[i] IN
         IF IsDir(f)
         THEN IF SkipDir(f)
              THEN Walk(entries, i + 1, acc)
              ELSE Walk(entries, i + 1, Merge(acc, GetPyFiles(f)))
         ELSE IF IsFile(f)
         THEN IF SkipFile(f)
              THEN Walk(entries, i + 1, acc)
              ELSE Walk(entries, i + 1, Found(Append(acc.files, f), acc.entered))
         ELSE Walk(entries, i + 1, acc)


----------------------------------------------------------------------------
(* count_file: the scan loop *)

StartsTriple(s) == StartsWith(s, TripleSingle) \/ StartsWith(s, TripleDouble)
EndsTriple(s) == EndsWith(s, TripleSingle) \/ EndsWith(s, TripleDouble)

\* ScanLine with the comment count of a # line forgotten
ScanLine_HashNotCounted(fd, inML, line) ==
    LET counted == [fd EXCEPT !.totalLines = @ + 1]
        strippedLine == Strip(line)
    IN  IF StartsWith(strippedLine, Hash)
        THEN [fileData |-> counted, inMultiLineComment |-> inML]
        ELSE IF StartsTriple(strippedLine)
        THEN [fileData |-> [counted EXCEPT !.commentLines = @ + 1],
              inMultiLineComment |-> IF EndsTriple(strippedLine) THEN inML ELSE ~inML]
        ELSE IF inML
        THEN [fileData |-> [counted EXCEPT !.commentLines = @ + 1],
              inMultiLineComment |-> inML]
        ELSE IF strippedLine = <<>>
        THEN [fileData |-> [counted EXCEPT !.blankLines = @ + 1],
              inMultiLineComment |-> inML]
        ELSE [fileData |-> [counted EXCEPT !.codeLines = @ + 1],
              inMultiLineComment |-> inML]

\* ScanLine without the endswith test: every line that starts a delimiter toggles
ScanLine_AlwaysToggles(fd, inML, line) ==
    LET counted == [fd EXCEPT !.totalLines = @ + 1]
        strippedLine == Strip(line)
    IN  IF StartsWith(strippedLine, Hash)
        THEN [fileData |-> [counted EXCEPT !.commentLines = @ + 1],
              inMultiLineComment |-> inML]
        ELSE IF StartsTriple(strippedLine)
        THEN [fileData |-> [counted EXCEPT !.commentLines = @ + 1],
              inMultiLineComment |-> ~inML]
        ELSE IF inML
        THEN [fileData |-> [counted EXCEPT !.commentLines = @ + 1],
              inMultiLineComment |-> inML]
        ELSE IF strippedLine = <<>>
        THEN [fileData |-> [counted EXCEPT !.blankLines = @ + 1],
              inMultiLineComment |-> inML]
        ELSE [fileData |-> [counted EXCEPT !.codeLines = @ + 1],
              inMultiLineComment |-> inML]

\* ScanLine asking for an empty line before it asks for an open block
ScanLine_BlankBeforeBlock(fd, inML, line) ==
    LET counted == [fd EXCEPT !.totalLines = @ + 1]
        strippedLine == Strip(line)
    IN  IF StartsWith(strippedLine, Hash)
        THEN [fileData |-> [counted EXCEPT !.commentLines = @ + 1],
              inMultiLineComment |-> inML]
        ELSE IF StartsTriple(strippedLine)
        THEN IF EndsTriple(strippedLine)
             THEN [fileData |-> [counted EXCEPT !.commentLines = @ + 1],
                   inMultiLineComment |-> inML]
             ELSE [fileData |-> [counted EXCEPT !.commentLines = @ + 1],
                   inMultiLineComment |-> ~inML]
        ELSE IF strippedLine = <<>>
        THEN [fileData |-> [counted EXCEPT !.blankLines = @ + 1],
              inMultiLineComment |-> inML]
        ELSE IF inML
        THEN [fileData |-> [counted EXCEPT !.commentLines = @ + 1],
              inMultiLineComment |-> inML]
        ELSE [fileData |-> [counted EXCEPT !.codeLines = @ + 1],
              inMultiLineComment |-> inML]

\* one pass of the body of `for line in lines`: the FileData and the flag after it
ScanLine(fd, inML, line) ==
    LET counted == [fd EXCEPT !.totalLines = @ + 1]
        strippedLine == Strip(line)
    IN  IF StartsWith(strippedLine, Hash)
        THEN [fileData |-> [counted EXCEPT !.commentLines = @ + 1],
              inMultiLineComment |-> inML]
        ELSE IF StartsTriple(strippedLine)
        THEN IF EndsTriple(strippedLine)
             THEN [fileData |-> [counted EXCEPT !.commentLines = @ + 1],
                   inMultiLineComment |-> inML]
             ELSE [fileData |-> [counted EXCEPT !.commentLines = @ + 1],
                   inMultiLineComment |-> ~inML]
        ELSE IF inML
        THEN [fileData |-> [counted EXCEPT !.commentLines = @ + 1],
              inMultiLineComment |-> inML]
        ELSE IF strippedLine = <<>>
        THEN [fileData |-> [counted EXCEPT !.blankLines = @ + 1],
              inMultiLineComment |-> inML]
        ELSE [fileData |-> [counted EXCEPT !.codeLines = @ + 1],
              inMultiLineComment |-> inML]

\* the whole of `for line in lines`, from the record fd and the flag inML on
RECURSIVE ScanAll(_, _, _)
ScanAll(fd, inML, ls) ==
    IF ls = <<>>
    THEN [fileData |-> fd, inMultiLineComment |-> inML]
    ELSE LET after == ScanLine(fd, inML, Head(ls)) IN
         ScanAll(after.fileData, after.inMultiLineComment, Tail(ls))

\* count_file as a function of the text read: the record it appends, or the
\* CommentNotClosedError it raises
CountFile(f, t) ==
    LET last == ScanAll(FileData(f, 0, 0, 0, 0), FALSE, SplitLines(t)) IN
    IF last.inMultiLineComment
    THEN [ok |-> FALSE, error |-> CommentNotClosedError(f)]
    ELSE [ok |-> TRUE, record |-> last.fileData]

\* the assert that closes count_file
CountsAddUp(fd) == fd.totalLines = fd.commentLines + fd.codeLines + fd.blankLines

\* AppendRecord putting the record first
AppendRecord_Front(fds, fd) == <<fd>> \o fds

\* self._fileDatas.append(fileData)
AppendRecord(fds, fd) == Append(fds, fd)

\* the file count_file is working on
file == files[idx]

\* what the records of the session have used of MaxLines
RECURSIVE LinesUsed(_)
LinesUsed(fds) ==
    IF fds = <<>> THEN 0
    ELSE (IF Head(fds).totalLines = 0 THEN 1 ELSE Head(fds).totalLines)
         + LinesUsed(Tail(fds))

\* lines the session may still read
LinesLeft == MaxLines - LinesUsed(fileDatas)

Entry(op) == [op |-> op, at |-> idx]

----------------------------------------------------------------------------
(* The session: LineCounter(settings), then calls of its methods *)

Init ==
    /\ pc = "idle"
    /\ call = "none"
    /\ files = <<>>
    /\ idx = 1
    /\ lines = <<>>
    /\ lineIdx = 0
    /\ fileData = NoFileData
    /\ inMultiLineComment = FALSE
    /\ fileDatas = <<>>
    /\ err = NoError
    /\ pre = <<>>
    /\ log = <<>>
    /\ output = NoOutput
    /\ settings = PlainSettings
    /\ tree = BareTree
    /\ found = NotCalled
    /\ content = <<>>
    /\ outcomes = NotCounted

Callable == pc \in {"idle", "returned", "raised"}

\* what a call leaves for the next one
Enter(method, fs, at) ==
    /\ call' = method
    /\ files' = fs
    /\ idx' = 1
    /\ pc' = at
    /\ err' = NoError
    /\ pre' = fileDatas
    /\ log' = <<>>
    /\ output' = NoOutput
    /\ lines' = <<>>
    /\ lineIdx' = 0
    /\ fileData' = NoFileData
    /\ UNCHANGED <<fileDatas, inMultiLineComment, discoveryVars, readVars>>

\* lineCounter.count_files(files)
CallCountFiles ==
    /\ Callable
    /\ \E fs \in BatchInputs :
         /\ (fs # <<>> => LinesLeft > 0)
         /\ Enter("count_files", fs, "loop")

\* lineCounter.count_file(file)
CallCountFile ==
    /\ Callable
    /\ LinesLeft > 0
    /\ \E f \in CountPaths : Enter("count_file", <<f>>, "open")

Raise(e) ==
    /\ pc' = "raised"
    /\ err' = e

\* CheckExists going on to the next file when one is missing
CheckExists_SkipsMissing ==
    /\ pc = "loop"
    /\ idx <= Len(files)
    /\ \E exists \in BOOLEAN :
         IF exists
         THEN /\ pc' = "open"
              /\ log' = Append(log, [op |-> "check", at |-> idx])
              /\ UNCHANGED idx
         ELSE /\ pc' = "loop"
              /\ idx' = idx + 1
              /\ log' = Append(log, [op |-> "missing", at |-> idx])
    /\ UNCHANGED <<call, files, lines, lineIdx, fileData, inMultiLineComment,
                   fileDatas, err, pre, output, discoveryVars, readVars>>

\* count_files, the head of `for file in files` and `if not file.exists()`
CheckExists ==
    /\ pc = "loop"
    /\ idx <= Len(files)
    /\ \E exists \in BOOLEAN :
         IF exists
         THEN /\ pc' = "open"
              /\ log' = Append(log, Entry("check"))
              /\ UNCHANGED err
         ELSE /\ Raise(OSError("FileNotFoundError", file))
              /\ log' = Append(log, Entry("missing"))
    /\ UNCHANGED <<call, files, idx, lines, lineIdx, fileData, inMultiLineComment,
                   fileDatas, pre, output, discoveryVars, readVars>>

\* count_files, the for loop exhausted: the method returns
LoopExit ==
    /\ pc = "loop"
    /\ idx > Len(files)
    /\ pc' = "returned"
    /\ UNCHANGED <<call, files, idx, lines, lineIdx, fileData, inMultiLineComment,
                   fileDatas, err, pre, log, output, discoveryVars, readVars>>

\* what open(file, "r") and f.read() meet: the text, or the reason there is none
OpenOutcomes ==
    {[ok |-> TRUE, text |-> t] : t \in (IF LinesLeft > 0 THEN Contents(LinesLeft) ELSE {})}
    \cup {[ok |-> FALSE, type |-> t] : t \in {"FileNotFoundError", "PermissionError"}}

\* OpenFile without `inMultiLineComment = False`
OpenFile_FlagKept ==
    /\ pc = "open"
    /\ fileData' = FileData(file, 0, 0, 0, 0)
    /\ \E o \in OpenOutcomes :
         IF o.ok
         THEN /\ lines' = SplitLines(o.text)
              /\ pc' = "scan"
              /\ log' = Append(log, Entry("open"))
              /\ UNCHANGED err
         ELSE /\ err' = OSError(o.type, file)
              /\ pc' = "raising"
              /\ log' = Append(log, Entry("unreadable"))
              /\ UNCHANGED lines
    /\ UNCHANGED <<call, files, idx, lineIdx, inMultiLineComment, fileDatas, pre, output, discoveryVars, readVars>>

\* count_file up to the scan loop: FileData(file, 0, 0, 0, 0), open, read, splitlines,
\* inMultiLineComment = False
OpenFile ==
    /\ pc = "open"
    /\ fileData' = FileData(file, 0, 0, 0, 0)
    /\ \E o \in OpenOutcomes :
         IF o.ok
         THEN /\ lines' = SplitLines(o.text)
              /\ inMultiLineComment' = FALSE
              /\ pc' = "scan"
              /\ log' = Append(log, Entry("open"))
              /\ UNCHANGED err
         ELSE /\ err' = OSError(o.type, file)
              /\ pc' = "raising"
              /\ log' = Append(log, Entry("unreadable"))
              /\ UNCHANGED <<lines, inMultiLineComment>>
    /\ UNCHANGED <<call, files, idx, lineIdx, fileDatas, pre, output, discoveryVars, readVars>>

\* count_file, one pass of `for line in lines`
ScanNext ==
    /\ pc = "scan"
    /\ lineIdx < Len(lines)
    /\ LET after == ScanLine(fileData, inMultiLineComment, lines[lineIdx + 1]) IN
         /\ fileData' = after.fileData
         /\ inMultiLineComment' = after.inMultiLineComment
    /\ lineIdx' = lineIdx + 1
    /\ UNCHANGED <<pc, call, files, idx, lines, fileDatas, err, pre, log, output, discoveryVars, readVars>>

\* EndScan appending the record before it looks at the flag
EndScan_KeepsPartial ==
    /\ pc = "scan"
    /\ lineIdx = Len(lines)
    /\ fileDatas' = Append(fileDatas, fileData)
    /\ IF inMultiLineComment
       THEN /\ err' = CommentNotClosedError(files[idx])
            /\ pc' = "raising"
            /\ log' = Append(log, [op |-> "unclosed", at |-> idx])
       ELSE /\ log' = Append(log, [op |-> "record", at |-> idx])
            /\ pc' = "appended"
            /\ UNCHANGED err
    /\ UNCHANGED <<call, files, idx, lines, lineIdx, fileData, inMultiLineComment,
                   pre, output, discoveryVars, readVars>>

\* count_file after the loop: raise, or assert and append
EndScan ==
    /\ pc = "scan"
    /\ lineIdx = Len(lines)
    /\ IF inMultiLineComment
       THEN /\ err' = CommentNotClosedError(file)
            /\ pc' = "raising"
            /\ log' = Append(log, Entry("unclosed"))
            /\ UNCHANGED fileDatas
       ELSE IF ~CountsAddUp(fileData)
       THEN /\ err' = OSError("AssertionError", file)
            /\ pc' = "raising"
            /\ log' = Append(log, Entry("assert"))
            /\ UNCHANGED fileDatas
       ELSE /\ fileDatas' = AppendRecord(fileDatas, fileData)
            /\ log' = Append(log, Entry("record"))
            /\ pc' = "appended"
            /\ UNCHANGED err
    /\ UNCHANGED <<call, files, idx, lines, lineIdx, fileData, inMultiLineComment,
                   pre, output, discoveryVars, readVars>>

\* the lines and the record of count_file end with the call; the flag stays as the
\* call left it until count_file sets it anew
DropLocals ==
    /\ lines' = <<>>
    /\ lineIdx' = 0
    /\ fileData' = NoFileData
    /\ UNCHANGED inMultiLineComment

\* count_file returns: to its caller, or into the for loop of count_files
ReturnFromCountFile ==
    /\ pc = "appended"
    /\ DropLocals
    /\ IF call = "count_file"
       THEN pc' = "returned" /\ UNCHANGED idx
       ELSE pc' = "loop" /\ idx' = idx + 1
    /\ UNCHANGED <<call, files, fileDatas, err, pre, log, output, discoveryVars, readVars>>

\* the exception of count_file leaves it, and count_files, which catches nothing
Propagate ==
    /\ pc = "raising"
    /\ DropLocals
    /\ pc' = "raised"
    /\ UNCHANGED <<call, files, idx, fileDatas, err, pre, log, output, discoveryVars, readVars>>

\* ZeroSafeDivision handing back the numerator for a zero denominator
ZeroSafeDivision_Numerator(numerator, denominator) ==
    IF denominator = 0
    THEN [num |-> numerator, den |-> 1]
    ELSE [num |-> numerator, den |-> denominator]

\* _zero_safe_division: the quotient as a fraction, 0 for a zero denominator
ZeroSafeDivision(numerator, denominator) ==
    IF denominator = 0
    THEN [num |-> 0, den |-> 1]
    ELSE [num |-> numerator, den |-> denominator]

\* f"{q * 100:.2f}": the percentage in hundredths, rounded to the nearest
Percent2f(q) == (2 * 100 * 100 * q.num + q.den) \div (2 * q.den)

\* the block of six lines print_file_data prints for one set of counts
Block(totalLines, commentLines, codeLines, blankLines) ==
    [totalLines |-> totalLines,
     commentLines |-> commentLines,
     codeLines |-> codeLines,
     blankLines |-> blankLines,
     blankCodeRatio |-> Percent2f(ZeroSafeDivision(blankLines, codeLines)),
     commentCodeRatio |-> Percent2f(ZeroSafeDivision(commentLines, codeLines))]

\* what print_file_data prints for the records fds
FileDataReport(fds) ==
    IF Len(fds) = 0
    THEN [kind |-> "No files to print."]
    ELSE [kind |-> "report",
          perFile |-> [i \in 1..Len(fds) |->
                         [file |-> fds[i].file,
                          counts |-> Block(fds[i].totalLines, fds[i].commentLines,
                                           fds[i].codeLines, fds[i].blankLines)]],
          total |-> Block(SumOver(fds, "totalLines"), SumOver(fds, "commentLines"),
                          SumOver(fds, "codeLines"), SumOver(fds, "blankLines"))]

\* lineCounter.print_file_data()
PrintFileData ==
    /\ Callable
    /\ output = NoOutput
    /\ output' = FileDataReport(fileDatas)
    /\ UNCHANGED <<pc, call, files, idx, lines, lineIdx, fileData, inMultiLineComment,
                   fileDatas, err, pre, log, discoveryVars, readVars>>

Next ==
    \/ CallCountFiles
    \/ CallCountFile
    \/ CheckExists
    \/ LoopExit
    \/ OpenFile
    \/ ScanNext
    \/ EndScan
    \/ ReturnFromCountFile
    \/ Propagate
    \/ PrintFileData

Spec == Init /\ [][Next]_vars

\* count_lines, from its call of count_files on: what it hands back to main
CountLinesResult ==
    IF pc = "returned" THEN "lineCounter"
    ELSE IF pc = "raised"
    THEN IF err.type \in {"FileNotFoundError", "CommentNotClosedError"}
         THEN "None"
         ELSE "uncaught " \o err.type
    ELSE "running"

----------------------------------------------------------------------------
(* The claims *)

Inside == <<"i", "n", "s", "i", "d", "e">>
OneLineDocstring == TripleSingle \o Docstring \o TripleSingle

NonNegative(fd) ==
    /\ fd.totalLines >= 0
    /\ fd.commentLines >= 0
    /\ fd.codeLines >= 0
    /\ fd.blankLines >= 0

LastRecord == fileDatas[Len(fileDatas)]

\* C1: every record of the session's collection has totalLines = commentLines +
\* codeLines + blankLines and no negative count, whatever calls were made on
\* whatever contents; and so has the record under construction after each line of
\* the scan loop.
C1_CountsAddUp ==
    /\ \A i \in 1..Len(fileDatas) :
         CountsAddUp(fileDatas[i]) /\ NonNegative(fileDatas[i])
    /\ pc \in {"scan", "appended", "raising"} =>
         CountsAddUp(fileData) /\ NonNegative(fileData)

C1_Witness ==
    /\ pc = "appended"
    /\ Len(fileDatas) = 2
    /\ LastRecord.commentLines = 1
    /\ LastRecord.codeLines = 1
    /\ LastRecord.totalLines = 2

\* C2 (as claimed): the file of the three lines ''' / inside / ''' is counted
\* without error as {total: 3, comment: 3, code: 0, blank: 0}.
C2_DelimitedBlockIsComment ==
    (pc \in {"appended", "raising"} /\ lines = <<TripleSingle, Inside, TripleSingle>>)
        => /\ pc = "appended"
           /\ LastRecord = FileData(file, 3, 3, 0, 0)

\* text s holds the text p somewhere
Contains(s, p) ==
    \E k \in 1..(Len(s) - Len(p) + 1) : SubSeq(s, k, k + Len(p) - 1) = p
HasDelimiter(s) == Contains(s, TripleSingle) \/ Contains(s, TripleDouble)

\* the lines ls open one triple-quote block and hold no further delimiter, on the
\* opening line or on any other
OpensUnclosedBlock(ls) ==
    \E i \in 1..Len(ls) :
        /\ StartsTriple(Strip(ls[i]))
        /\ ~HasDelimiter(SubSeq(Strip(ls[i]), 4, Len(Strip(ls[i]))))
        /\ \A j \in 1..Len(ls) : j # i => ~HasDelimiter(ls[j])

\* C3 (as claimed): a file in which a triple-quote block is opened and never closed
\* makes count_file raise CommentNotClosedError carrying the path of that file.
C3_UnclosedBlockRaises ==
    (pc \in {"appended", "raising"} /\ err.type \notin {"FileNotFoundError", "PermissionError"}
       /\ OpensUnclosedBlock(lines))
        => /\ pc = "raising"
           /\ err = CommentNotClosedError(file)

\* C6 (as claimed): when count_files raises, fileDatas is what it was before the call.
C6_FailedBatchLeavesNothing ==
    (pc = "raised" /\ call = "count_files"
       /\ err.type \in {"FileNotFoundError", "CommentNotClosedError"})
        => fileDatas = pre

\* C6 (amended): when count_files raises for a missing file or an unclosed comment,
\* fileDatas is what it was before the call followed by one record for each file
\* before the failing one, in order, and nothing for the failing file or a later
\* one; it is count_lines that drops them, handing back None.
C6_FailedBatchKeepsEarlierRecords ==
    (pc = "raised" /\ call = "count_files"
       /\ err.type \in {"FileNotFoundError", "CommentNotClosedError"})
        => /\ Len(fileDatas) = Len(pre) + idx - 1
           /\ SubSeq(fileDatas, 1, Len(pre)) = pre
           /\ \A i \in 1..(idx - 1) : fileDatas[Len(pre) + i].file = files[i]
           /\ err.file = files[idx]
           /\ CountLinesResult = "None"

C6_Witness ==
    /\ pc = "raised"
    /\ call = "count_files"
    /\ err.type = "CommentNotClosedError"
    /\ idx = 2
    /\ pre # <<>>
    /\ Len(fileDatas) = Len(pre) + 1

FailureOps == {"missing", "unreadable", "unclosed", "assert"}

\* what count_files may meet as the k-th thing of a call: the check, the open and
\* the record of file 1, then those of file 2, ...
StageOps(k) ==
    CASE (k - 1) % 3 = 0 -> {"check", "missing"}
      [] (k - 1) % 3 = 1 -> {"open", "unreadable"}
      [] OTHER -> {"record", "unclosed", "assert"}

\* C7: count_files handles the files in input order, checks that a path exists right
\* before that file is opened and counted, and stops at the first missing path or
\* failing file: the call raises, and no later position is checked, opened or
\* recorded.
C7_FailFastInOrder ==
    call = "count_files" =>
        /\ \A k \in 1..Len(log) :
             /\ log[k].at = ((k - 1) \div 3) + 1
             /\ log[k].op \in StageOps(k)
             /\ log[k].op \in FailureOps =>
                  /\ k = Len(log)
                  /\ pc \in {"raising", "raised"}
                  /\ idx = log[k].at
        /\ pc \in {"raising", "raised"} =>
             /\ log # <<>>
             /\ log[Len(log)].op \in FailureOps
             /\ \A k \in 1..Len(log) : log[k].at <= idx
             /\ Len(fileDatas) = Len(pre) + idx - 1
             /\ err.file = files[idx]

C7_Witness ==
    /\ call = "count_files"
    /\ pc = "raised"
    /\ files = <<PathA, PathB, PathA>>
    /\ idx = 2
    /\ log[Len(log)] = [op |-> "missing", at |-> 2]
    /\ Len(log) = 4

\* C8: after count_files(files) has returned on a session whose collection was
\* empty, fileDatas has one record per path of files, the i-th for files[i].
C8_OneRecordPerFileInOrder ==
    (pc = "returned" /\ call = "count_files" /\ pre = <<>>)
        => /\ Len(fileDatas) = Len(files)
           /\ \A i \in 1..Len(files) : fileDatas[i].file = files[i]

C8_Witness ==
    /\ pc = "returned"
    /\ call = "count_files"
    /\ pre = <<>>
    /\ files = <<PathA, PathB, PathA>>
    /\ Len(fileDatas) = 3

\* C9: a line whose stripped text starts with a triple-quote delimiter and ends with
\* one is counted as comment and leaves inMultiLineComment as it was; the file of
\* the one line '''docstring''' is counted as {total: 1, comment: 1, code: 0,
\* blank: 0}, the flag down.
C9_OneLineBlockKeepsState ==
    /\ [][(pc = "scan" /\ lineIdx < Len(lines)
            /\ StartsTriple(Strip(lines[lineIdx + 1]))
            /\ EndsTriple(Strip(lines[lineIdx + 1])))
          => /\ inMultiLineComment' = inMultiLineComment
             /\ fileData' = [fileData EXCEPT !.totalLines = @ + 1,
                                             !.commentLines = @ + 1]]_vars
    /\ []((pc \in {"appended", "raising"} /\ lines = <<OneLineDocstring>>)
            => /\ pc = "appended"
               /\ ~inMultiLineComment
               /\ LastRecord = FileData(file, 1, 1, 0, 0))

C9_Witness ==
    /\ pc = "appended"
    /\ lines = <<OneLineDocstring>>
    /\ LastRecord = FileData(file, 1, 1, 0, 0)
    /\ ~inMultiLineComment

\* the sum of a field over the first n records
RECURSIVE SumTo(_, _, _)
SumTo(fds, field, n) ==
    IF n = 0 THEN 0 ELSE SumTo(fds, field, n - 1) + fds[n][field]

CountFields == {"totalLines", "commentLines", "codeLines", "blankLines"}

TotalsAreSums ==
    /\ output.kind = "report"
    /\ \A f \in CountFields : output.total[f] = SumTo(fileDatas, f, Len(fileDatas))
    /\ output.total.codeLines = 0 =>
         output.total.blankCodeRatio = 0 /\ output.total.commentCodeRatio = 0

----------------------------------------------------------------------------
(* Discovery: count_lines' call lineCounter.get_py_files(settings.path) *)

InitDiscovery ==
    /\ pc = "idle"
    /\ call = "none"
    /\ files = <<>>
    /\ idx = 1
    /\ lines = <<>>
    /\ lineIdx = 0
    /\ fileData = NoFileData
    /\ inMultiLineComment = FALSE
    /\ fileDatas = <<>>
    /\ err = NoError
    /\ pre = <<>>
    /\ log = <<>>
    /\ output = NoOutput
    /\ settings \in SettingsChoices
    /\ tree \in Trees
    /\ found = NotCalled
    /\ content = <<>>
    /\ outcomes = NotCounted

CallGetPyFiles ==
    /\ found = NotCalled
    /\ found' = GetPyFiles(settings.path)
    /\ UNCHANGED <<sessionVars, settings, tree, readVars>>

NextDiscovery == CallGetPyFiles

SpecDiscovery == InitDiscovery /\ [][NextDiscovery]_vars

\* C4 (as claimed): whatever the root path and the settings, no path get_py_files
\* returns has a name in ignoreNames, is one of ignorePaths, or has an extension
\* other than .py.
C4_NothingExcludedReturned ==
    found.ok =>
        \A i \in 1..Len(found.files) :
            /\ Name(found.files[i]) \notin settings.ignoreNames
            /\ found.files[i] \notin settings.ignorePaths
            /\ Suffix(found.files[i]) = <<".", "p", "y">>

\* C4 (amended): no path get_py_files returns has an extension other than .py; and
\* when the root path is a directory, none has a name in ignoreNames or is one of
\* ignorePaths. A root path that is itself a .py file is returned whatever the
\* ignore lists say.
C4_NoExcludedEntryReturned ==
    found.ok =>
        \A i \in 1..Len(found.files) :
            /\ Suffix(found.files[i]) = <<".", "p", "y">>
            /\ IsDir(settings.path) =>
                 /\ Name(found.files[i]) \notin settings.ignoreNames
                 /\ found.files[i] \notin settings.ignorePaths
            /\ IsFile(settings.path) => found.files = <<settings.path>>

C4_Witness ==
    /\ found.ok
    /\ settings.path = Proj
    /\ settings.recursive
    /\ settings.ignoreNames = {NameVenv, NameA}
    /\ settings.ignorePaths = {Append(Sub, NameSub)}
    /\ IsFile(Append(Proj, NameA))
    /\ IsFile(Append(Proj, NameTxt))
    /\ IsFile(Append(Append(Sub, NameSub), NameA))
    /\ found.files = <<Append(Sub, NameB)>>

\* C5: with recursive = false and a directory as root, every path get_py_files
\* returns is an entry of the root itself, and no directory but the root is listed.
C5_NonRecursiveStaysInRoot ==
    (found.ok /\ ~settings.recursive /\ IsDir(settings.path)) =>
        /\ \A i \in 1..Len(found.files) : Parent(found.files[i]) = settings.path
        /\ found.entered = <<settings.path>>

C5_Witness ==
    /\ found.ok
    /\ ~settings.recursive
    /\ settings.path = Proj
    /\ settings.ignoreNames = {}
    /\ settings.ignorePaths = {}
    /\ IsFile(Append(Sub, NameB))
    /\ IsFile(Append(Append(Sub, NameSub), NameA))
    /\ found.files = <<Append(Proj, NameA)>>

\* count_lines, up to its call of count_files: "files" when get_py_files handed a
\* list back, "None" when its ValueError was caught
DiscoveryResult ==
    IF found.ok THEN "files"
    ELSE IF found.error = "ValueError" THEN "None"
    ELSE "uncaught " \o found.error

\* C11: when the root path is itself a file, get_py_files returns the one-element
\* list of that path if its extension is .py, and otherwise raises ValueError and
\* returns no list; count_lines catches the ValueError and hands back None.
C11_RootFile ==
    (found # NotCalled /\ IsFile(settings.path)) =>
        IF Suffix(settings.path) = <<".", "p", "y">>
        THEN /\ found.ok
             /\ found.files = <<settings.path>>
             /\ DiscoveryResult = "files"
        ELSE /\ ~found.ok
             /\ found.error = "ValueError"
             /\ "files" \notin DOMAIN found
             /\ DiscoveryResult = "None"

C11_Witness ==
    /\ found # NotCalled
    /\ settings.path = Append(Proj, NameTxt)
    /\ IsFile(settings.path)
    /\ found.error = "ValueError"

----------------------------------------------------------------------------
(* The claims on count_file and count_files, continued *)

LastLogged == log[Len(log)]

\* C12 (as claimed): when a path has passed the existence check of count_files and
\* the open of count_file then fails, because the file was removed or made
\* inaccessible in between, the error is the FileNotFoundError that count_lines
\* catches: the batch stops and count_lines hands back None.
C12_LateUnreadableIsCaught ==
    (pc = "raised" /\ call = "count_files" /\ LastLogged.op = "unreadable")
        => /\ err.type = "FileNotFoundError"
           /\ CountLinesResult = "None"

\* the count a line adds to, by the precedence of the scan loop
Category(strippedLine, inML) ==
    IF StartsWith(strippedLine, Hash) THEN "commentLines"
    ELSE IF StartsTriple(strippedLine) THEN "commentLines"
    ELSE IF inML THEN "commentLines"
    ELSE IF strippedLine = <<>> THEN "blankLines"
    ELSE "codeLines"

\* C14: each pass of the scan loop adds one to totalLines and one to exactly one of
\* commentLines, blankLines, codeLines: a line starting with # is comment and leaves
\* inMultiLineComment as it was, open block or not; else a line starting with a
\* triple-quote delimiter is comment; else a line met while inMultiLineComment is
\* true is comment, an empty or whitespace-only one too; else an empty stripped line
\* is blank; else the line is code.
C14_ClassifiedByPrecedence ==
    [][(pc = "scan" /\ lineIdx < Len(lines)) =>
         LET strippedLine == Strip(lines[lineIdx + 1]) IN
         /\ lineIdx' = lineIdx + 1
         /\ fileData' = [fileData EXCEPT
                           !.totalLines = @ + 1,
                           ![Category(strippedLine, inMultiLineComment)] = @ + 1]
         /\ StartsWith(strippedLine, Hash) => inMultiLineComment' = inMultiLineComment
         /\ ~StartsTriple(strippedLine) => inMultiLineComment' = inMultiLineComment]_vars

C14_Witness ==
    /\ pc = "scan"
    /\ Len(lines) = 3
    /\ lineIdx = 3
    /\ lines[1] = TripleSingle \o <<"d">>
    /\ lines[2] = <<"#", "c">>
    /\ lines[3] = <<" ", " ">>
    /\ inMultiLineComment
    /\ fileData = FileData(file, 3, 3, 0, 0)

\* count_file has failed, or is under way, on files[idx]
InCountFile == pc \in {"open", "scan", "raising"}

\* C17: a count_file that raises, because the file cannot be opened or because a
\* comment is not closed, appends nothing: no step of it from the open to the raise
\* changes fileDatas, and after a failed count_file(file) fileDatas is what it was
\* before the call.
C17_FailedCountFileAppendsNothing ==
    /\ [][(InCountFile /\ pc' \in {"open", "scan", "raising", "raised"})
            => fileDatas' = fileDatas]_vars
    /\ []((call = "count_file" /\ pc \in {"raising", "raised"}) => fileDatas = pre)

C17_Witness ==
    /\ call = "count_file"
    /\ pc = "raised"
    /\ err.type = "CommentNotClosedError"
    /\ pre # <<>>
    /\ fileDatas = pre

\* the record count_file makes of the lines ls of file f when nothing came before
CountedAlone(f, ls) == ScanAll(FileData(f, 0, 0, 0, 0), FALSE, ls)

\* C18: inMultiLineComment is false when the scan of a file starts, whatever was
\* counted or has failed before; so the record under way after each line, and the
\* record appended, are those that the same lines give when counted alone.
C18_NoStateAcrossFiles ==
    /\ (pc = "scan" /\ lineIdx = 0) => ~inMultiLineComment
    /\ pc = "scan" =>
         /\ fileData = CountedAlone(file, SubSeq(lines, 1, lineIdx)).fileData
         /\ inMultiLineComment
              = CountedAlone(file, SubSeq(lines, 1, lineIdx)).inMultiLineComment
    /\ pc = "appended" => LastRecord = CountedAlone(file, lines).fileData

C18_Witness ==
    /\ pc = "appended"
    /\ call = "count_files"
    /\ idx = 2
    /\ fileDatas[1].blankLines = 1
    /\ lines = <<TripleSingle \o <<"d">>, TripleSingle \o <<"d">>>>
    /\ LastRecord = FileData(file, 2, 2, 0, 0)

----------------------------------------------------------------------------
(* The claims on get_py_files, continued *)

\* path p lies beneath directory d, at any depth
Beneath(p, d) == Len(d) < Len(p) /\ SubSeq(p, 1, Len(d)) = d

ExcludedDir(d) == Name(d) \in settings.ignoreNames \/ d \in settings.ignorePaths

Returned == {found.files[i] : i \in 1..Len(found.files)}
Entered == {found.entered[i] : i \in 1..Len(found.entered)}

\* C15: with a directory as root, get_py_files lists no directory below the root
\* whose name is in ignoreNames or whose path is in ignorePaths, and nothing beneath
\* such a directory: no returned path lies under one, at any depth, whatever the
\* name and the path of the file itself.
C15_IgnoredDirectoriesNotEntered ==
    (found.ok /\ IsDir(settings.path)) =>
        \A d \in DOMAIN tree.kind :
            (IsDir(d) /\ Beneath(d, settings.path) /\ ExcludedDir(d)) =>
                /\ d \notin Entered
                /\ \A p \in Returned \cup Entered : ~Beneath(p, d)

C15_Witness ==
    /\ found.ok
    /\ settings.path = Proj
    /\ settings.recursive
    /\ settings.ignoreNames = {NameVenv}
    /\ settings.ignorePaths = {Append(Sub, NameSub)}
    /\ IsFile(Append(Append(Sub, NameVenv), NameA))
    /\ IsFile(Append(Append(Sub, NameSub), NameA))
    /\ Append(Sub, NameB) \in Returned
    /\ Sub \in Entered

\* the place of entry f in the listing of its directory
Place(f) == CHOOSE k \in 1..Len(IterDir(Parent(f))) : IterDir(Parent(f))[k] = f

\* the first place at which the paths p and q part
PartAt(p, q) ==
    CHOOSE k \in 1..Len(p) :
        /\ k <= Len(q)
        /\ p[k] # q[k]
        /\ SubSeq(p, 1, k - 1) = SubSeq(q, 1, k - 1)

\* p comes before q when the directories are walked depth first in listing order
WalkedBefore(p, q) ==
    Place(SubSeq(p, 1, PartAt(p, q))) < Place(SubSeq(q, 1, PartAt(p, q)))

\* the files a walk from the root is to hand back: those of extension .py, neither
\* excluded by name nor by path, under directories none of which is skipped
Expected ==
    {p \in DOMAIN tree.kind :
        /\ IsFile(p)
        /\ Beneath(p, settings.path)
        /\ Suffix(p) = <<".", "p", "y">>
        /\ Name(p) \notin settings.ignoreNames
        /\ p \notin settings.ignorePaths
        /\ \A d \in DOMAIN tree.kind :
             (Beneath(p, d) /\ Beneath(d, settings.path)) =>
                 settings.recursive /\ ~ExcludedDir(d)}

\* C16: with a directory as root, get_py_files returns exactly the .py files that
\* are excluded neither by name nor by path and lie under no skipped directory,
\* each once, in depth-first order: of two returned paths the first is the one
\* whose branch comes first in the listing of the directory where they part.
C16_DepthFirstReference ==
    (found.ok /\ IsDir(settings.path)) =>
        /\ Returned = Expected
        /\ \A i, j \in 1..Len(found.files) :
             i < j => /\ found.files[i] # found.files[j]
                      /\ WalkedBefore(found.files[i], found.files[j])

C16_Witness ==
    /\ found.ok
    /\ settings.path = Proj
    /\ settings.recursive
    /\ settings.ignoreNames = {}
    /\ settings.ignorePaths = {}
    /\ ~tree.reversed
    /\ found.files = <<Append(Proj, NameA),
                       Append(Append(Proj, NameVenv), NameA),
                       Append(Append(Sub, NameVenv), NameA),
                       Append(Append(Sub, NameSub), NameA),
                       Append(Sub, NameB)>>

----------------------------------------------------------------------------
(* count_file as a function of the text it reads *)

InitRead ==
    /\ pc = "idle"
    /\ call = "none"
    /\ files = <<>>
    /\ idx = 1
    /\ lines = <<>>
    /\ lineIdx = 0
    /\ fileData = NoFileData
    /\ inMultiLineComment = FALSE
    /\ fileDatas = <<>>
    /\ err = NoError
    /\ pre = <<>>
    /\ log = <<>>
    /\ output = NoOutput
    /\ settings = PlainSettings
    /\ tree = BareTree
    /\ found = NotCalled
    /\ content \in ReadTexts(MaxLines)
    /\ outcomes = NotCounted

\* count_file on a file that reads as content, and on one that reads as content followed
\* by one more terminator
CountBoth ==
    /\ outcomes = NotCounted
    /\ outcomes' = [plain |-> CountFile(PathA, content),
                   terminated |-> [t \in LineBoundaries |->
                                     CountFile(PathA, content \o <<t>>)]]
    /\ UNCHANGED <<sessionVars, discoveryVars, content>>

NextRead == CountBoth

SpecRead == InitRead /\ [][NextRead]_vars

Terminated(t) == t # <<>> /\ t[Len(t)] \in LineBoundaries

\* the number of terminators in the text t
Terminators(t) == Cardinality({i \in 1..Len(t) : t[i] \in LineBoundaries})

\* C13: for every text that is not empty and does not end with a line terminator,
\* count_file gives the same outcome on the text and on the text followed by one
\* terminator; and the totalLines of a counted text is the number of its
\* terminators, plus one exactly when text that is not empty follows the last of
\* them.
C13_FinalTerminatorAddsNoLine ==
    outcomes # NotCounted =>
        /\ (content # <<>> /\ ~Terminated(content)) =>
             \A t \in LineBoundaries : outcomes.terminated[t] = outcomes.plain
        /\ outcomes.plain.ok =>
             outcomes.plain.record.totalLines
               = Terminators(content) + (IF content # <<>> /\ ~Terminated(content) THEN 1 ELSE 0)

C13_Witness ==
    /\ outcomes # NotCounted
    /\ content = <<"#", "c", NL, "i", "n", "s", "i", "d", "e">>
    /\ outcomes.plain = [ok |-> TRUE, record |-> FileData(PathA, 2, 1, 1, 0)]
    /\ outcomes.terminated[NL] = outcomes.plain

\* the number of the lines ls whose stripped text starts with a triple-quote
\* delimiter and does not end with one
Openers(ls) ==
    Cardinality({i \in 1..Len(ls) :
                   StartsTriple(Strip(ls[i])) /\ ~EndsTriple(Strip(ls[i]))})

\* C20: count_file on a readable file raises CommentNotClosedError, naming the file,
\* exactly when the number of its lines whose stripped text starts with a
\* triple-quote delimiter and does not end with one is odd; a line that starts with
\* either style counts alike, whatever style opened the block.
C20_RaisesIffOddOpeners ==
    outcomes # NotCounted =>
        /\ ~outcomes.plain.ok <=> Openers(SplitLines(content)) % 2 = 1
        /\ ~outcomes.plain.ok => outcomes.plain.error = CommentNotClosedError(PathA)

C20_Witness ==
    /\ outcomes # NotCounted
    /\ content = TripleSingle \o <<"d", NL>> \o TripleDouble \o <<"d", NL>>
    /\ outcomes.plain = [ok |-> TRUE, record |-> FileData(PathA, 2, 2, 0, 0)]

----------------------------------------------------------------------------
(* main: count_lines, then print_data *)

\* the values of --detail
OutputDetails == {"minimal", "basic", "full"}

\* x / y of Python: a fraction, or the ZeroDivisionError
Divide(x, y) ==
    IF y = 0 THEN [error |-> "ZeroDivisionError"]
    ELSE [error |-> "none", num |-> x, den |-> y]

\* f"{q:.2f}": the quotient in hundredths, rounded to the nearest
Fixed2f(q) == (2 * 100 * q.num + q.den) \div (2 * q.den)

\* the totals print_data and print_statistics sum up
Totals(fds) ==
    [files |-> Len(fds),
     totalLines |-> SumOver(fds, "totalLines"),
     commentLines |-> SumOver(fds, "commentLines"),
     codeLines |-> SumOver(fds, "codeLines"),
     blankLines |-> SumOver(fds, "blankLines")]

\* print_table: one row for each record
PrintTable(fds) ==
    [i \in 1..Len(fds) |->
       <<Name(fds[i].file), fds[i].totalLines, fds[i].commentLines,
         fds[i].codeLines, fds[i].blankLines>>]

\* print_statistics: the averages for each file, then the percentages; what was
\* printed when a division stopped it
PrintStatistics(fds) ==
    LET total == Totals(fds)
        average == [f \in {"totalLines", "commentLines", "codeLines", "blankLines"} |->
                      Divide(total[f], Len(fds))]
        percent == [f \in {"blankLines", "commentLines", "codeLines"} |->
                      Divide(total[f], total.totalLines)]
    IN  IF \E f \in DOMAIN average : average[f].error # "none"
        THEN [printed |-> <<>>, error |-> "ZeroDivisionError"]
        ELSE LET averages == [f \in DOMAIN average |-> Fixed2f(average[f])] IN
             IF percent["blankLines"].error # "none"
             THEN [printed |-> <<averages>>, error |-> "ZeroDivisionError"]
             ELSE [printed |-> <<averages,
                                 [f \in DOMAIN percent |-> Percent2f(percent[f])]>>,
                   error |-> "none"]

\* what print_data prints for the records fds at the given detail, and the
\* exception that ended it
DataReport(fds, detail) ==
    LET overall == <<Totals(fds)>> IN
    IF detail = "minimal"
    THEN [kind |-> "data", printed |-> overall, error |-> "none"]
    ELSE IF detail = "basic"
    THEN [kind |-> "data", printed |-> overall \o <<PrintTable(fds)>>, error |-> "none"]
    ELSE LET statistics == PrintStatistics(fds) IN
         [kind |-> "data",
          printed |-> overall \o <<PrintTable(fds)>> \o statistics.printed,
          error |-> statistics.error]

InitReport ==
    /\ pc = "idle"
    /\ call = "none"
    /\ files = <<>>
    /\ idx = 1
    /\ lines = <<>>
    /\ lineIdx = 0
    /\ fileData = NoFileData
    /\ inMultiLineComment = FALSE
    /\ fileDatas = <<>>
    /\ err = NoError
    /\ pre = <<>>
    /\ log = <<>>
    /\ output = NoOutput
    /\ settings \in {[PlainSettings EXCEPT !.outputDetail = d] : d \in OutputDetails}
    /\ tree = BareTree
    /\ found = NotCalled
    /\ content = <<>>
    /\ outcomes = NotCounted

\* count_lines: lineCounter.count_files(files) on the new LineCounter
CountLines ==
    /\ pc = "idle"
    /\ CallCountFiles

\* main: print_data(countLinesResult) when count_lines handed the counter back
PrintData ==
    /\ pc = "returned"
    /\ CountLinesResult = "lineCounter"
    /\ output = NoOutput
    /\ output' = DataReport(fileDatas, settings.outputDetail)
    /\ UNCHANGED <<pc, call, files, idx, lines, lineIdx, fileData, inMultiLineComment,
                   fileDatas, err, pre, log, discoveryVars, readVars>>

NextReport ==
    \/ CountLines
    \/ CheckExists
    \/ LoopExit
    \/ OpenFile
    \/ ScanNext
    \/ EndScan
    \/ ReturnFromCountFile
    \/ Propagate
    \/ PrintData

SpecReport == InitReport /\ [][NextReport]_vars

\* C19 (as claimed): whenever counting has succeeded, print_data ends without a
\* ZeroDivisionError, at each of the details minimal, basic and full, with no file
\* counted and with no line counted too.
C19_ReportNeverDividesByZero ==
    output.kind = "data" => output.error = "none"

====
